---------------------------- MODULE Spec2Model ----------------------------
(***************************************************************************)
(* json-partial-streaming: the writer package.                             *)
(*                                                                         *)
(* A Writer sits between encoding/json's Encoder and the real io.Writer.   *)
(* Values registered with NewValue / NewArrayValue marshal to a string     *)
(* literal carrying a reserved prefix; Write scans the byte stream, finds  *)
(* those literals and calls the registered function in their place.        *)
(*                                                                         *)
(* Bytes are the integers 0..255, strings and []byte are sequences of      *)
(* bytes.                                                                  *)
(***************************************************************************)
EXTENDS Integers, Sequences, FiniteSets, TLC

(***************************************************************************)
(* Bytes the code names.                                                   *)
(***************************************************************************)
QUOTE == 34
BACKSLASH == 92
LBRACKET == 91
RBRACKET == 93
COMMA == 44

\* const streamPrefix = `\(U+1F38F)` : a backslash and U+1F38F in UTF-8.
streamPrefix == <<92, 240, 159, 142, 143>>

\* const streamJSONPrefix = `"\\(U+1F38F)` : the opening quote and the escaped prefix.
streamJSONPrefix == <<34, 92, 92, 240, 159, 142, 143>>

\* streamState
stateUndetermined == 0
stateValue == 1
stateNotValue == 2

(***************************************************************************)
(* Sequence helpers.                                                       *)
(***************************************************************************)
Drop(s, k) == SubSeq(s, k + 1, Len(s))

Take(s, k) == SubSeq(s, 1, k)

\* strings.HasPrefix
HasPrefix(s, pre) == Len(s) >= Len(pre) /\ Take(s, Len(pre)) = pre

(***************************************************************************)
(* unicode/utf8, as encoding/json uses it.                                 *)
(***************************************************************************)
RuneError == 65533

IsCont(b) == b >= 128 /\ b <= 191

\* utf8.DecodeRune: the first rune of s and its width; an invalid or short
\* encoding is (RuneError, 1).
DecodeRune(s) ==
    LET b0 == s[1]
        bad == [cp |-> RuneError, size |-> 1]
    IN  IF b0 < 128 THEN [cp |-> b0, size |-> 1]
        ELSE IF b0 >= 194 /\ b0 <= 223
        THEN IF Len(s) >= 2 /\ IsCont(s[2])
             THEN [cp |-> (b0 - 192) * 64 + (s[2] - 128), size |-> 2]
             ELSE bad
        ELSE IF b0 >= 224 /\ b0 <= 239
        THEN LET lo == IF b0 = 224 THEN 160 ELSE 128
                 hi == IF b0 = 237 THEN 159 ELSE 191
             IN  IF Len(s) >= 3 /\ s[2] >= lo /\ s[2] <= hi /\ IsCont(s[3])
                 THEN [cp |-> (b0 - 224) * 4096 + (s[2] - 128) * 64 + (s[3] - 128),
                       size |-> 3]
                 ELSE bad
        ELSE IF b0 >= 240 /\ b0 <= 244
        THEN LET lo == IF b0 = 240 THEN 144 ELSE 128
                 hi == IF b0 = 244 THEN 143 ELSE 191
             IN  IF Len(s) >= 4 /\ s[2] >= lo /\ s[2] <= hi
                    /\ IsCont(s[3]) /\ IsCont(s[4])
                 THEN [cp |-> (b0 - 240) * 262144 + (s[2] - 128) * 4096
                              + (s[3] - 128) * 64 + (s[4] - 128),
                       size |-> 4]
                 ELSE bad
        ELSE bad

\* utf8.EncodeRune: surrogates and out-of-range runes encode as RuneError.
EncodeRune(r) ==
    LET cp == IF r < 0 \/ r > 1114111 \/ (r >= 55296 /\ r <= 57343)
              THEN RuneError ELSE r
    IN  IF cp < 128 THEN <<cp>>
        ELSE IF cp < 2048 THEN <<192 + (cp \div 64), 128 + (cp % 64)>>
        ELSE IF cp < 65536
        THEN <<224 + (cp \div 4096), 128 + ((cp \div 64) % 64), 128 + (cp % 64)>>
        ELSE <<240 + (cp \div 262144), 128 + ((cp \div 4096) % 64),
               128 + ((cp \div 64) % 64), 128 + (cp % 64)>>

\* the digit of "0123456789abcdef"
HexDigit(v) == IF v < 10 THEN 48 + v ELSE 87 + v

IsHex(b) == (b >= 48 /\ b <= 57) \/ (b >= 97 /\ b <= 102) \/ (b >= 65 /\ b <= 70)

HexVal(b) == IF b <= 57 THEN b - 48 ELSE IF b >= 97 THEN b - 87 ELSE b - 55

(***************************************************************************)
(* encoding/json on strings: what json.Marshal(string) writes and what     *)
(* json.Unmarshal(data, &s) reads back.                                    *)
(***************************************************************************)
\* \u00XX for a byte below 0x80
EscapeU00(b) == <<92, 117, 48, 48, HexDigit(b \div 16), HexDigit(b % 16)>>

\* the escape json writes for an invalid byte: backslash, u, f, f, f, d
EscapedRuneError == <<92, 117, 102, 102, 102, 100>>

RECURSIVE EncodeStringBody(_)
\* encodeState.string with escapeHTML (json.Marshal's default), without the
\* surrounding quotes.
EncodeStringBody(s) ==
    IF s = <<>> THEN <<>>
    ELSE LET b == Head(s) IN
         IF b < 128
         THEN (IF b = QUOTE \/ b = BACKSLASH THEN <<92, b>>
               ELSE IF b = 10 THEN <<92, 110>>
               ELSE IF b = 13 THEN <<92, 114>>
               ELSE IF b = 9 THEN <<92, 116>>
               ELSE IF b < 32 \/ b \in {60, 62, 38} THEN EscapeU00(b)
               ELSE <<b>>) \o EncodeStringBody(Tail(s))
         ELSE LET r == DecodeRune(s) IN
              IF r.cp = RuneError /\ r.size = 1
              THEN EscapedRuneError \o EncodeStringBody(Tail(s))
              ELSE IF r.cp = 8232 \/ r.cp = 8233
              THEN <<92, 117, 50, 48, 50, HexDigit(r.cp % 16)>>
                       \o EncodeStringBody(Drop(s, r.size))
              ELSE Take(s, r.size) \o EncodeStringBody(Drop(s, r.size))

\* json.Marshal of a Go string
jsonMarshalString(s) == <<QUOTE>> \o EncodeStringBody(s) \o <<QUOTE>>

\* getu4: the code unit of \uXXXX at the head of s, or -1
getu4(s) ==
    IF Len(s) < 6 \/ s[1] # BACKSLASH \/ s[2] # 117
       \/ ~(IsHex(s[3]) /\ IsHex(s[4]) /\ IsHex(s[5]) /\ IsHex(s[6]))
    THEN -1
    ELSE HexVal(s[3]) * 4096 + HexVal(s[4]) * 256 + HexVal(s[5]) * 16 + HexVal(s[6])

IsSurrogate(r) == r >= 55296 /\ r <= 57343

\* utf16.DecodeRune
utf16DecodeRune(r1, r2) ==
    IF r1 >= 55296 /\ r1 < 56320 /\ r2 >= 56320 /\ r2 < 57344
    THEN (r1 - 55296) * 1024 + (r2 - 56320) + 65536
    ELSE RuneError

RECURSIVE UnquoteBody(_, _)
\* unquoteBytes after the scanner's checkValid, on the bytes between the quotes:
\* [ok, s]. A bad escape, a control character or a bare quote is a syntax error;
\* invalid UTF-8 is coerced to U+FFFD.
UnquoteBody(s, acc) ==
    IF s = <<>> THEN [ok |-> TRUE, s |-> acc]
    ELSE LET b == Head(s)
             fail == [ok |-> FALSE, s |-> <<>>]
         IN
         IF b = BACKSLASH
         THEN IF Len(s) < 2 THEN fail
              ELSE LET c == s[2] IN
                   IF c \in {QUOTE, BACKSLASH, 47}
                   THEN UnquoteBody(Drop(s, 2), Append(acc, c))
                   ELSE IF c = 98 THEN UnquoteBody(Drop(s, 2), Append(acc, 8))
                   ELSE IF c = 102 THEN UnquoteBody(Drop(s, 2), Append(acc, 12))
                   ELSE IF c = 110 THEN UnquoteBody(Drop(s, 2), Append(acc, 10))
                   ELSE IF c = 114 THEN UnquoteBody(Drop(s, 2), Append(acc, 13))
                   ELSE IF c = 116 THEN UnquoteBody(Drop(s, 2), Append(acc, 9))
                   ELSE IF c = 117
                   THEN LET rr == getu4(s) IN
                        IF rr < 0 THEN fail
                        ELSE IF IsSurrogate(rr)
                        THEN LET dec == utf16DecodeRune(rr, getu4(Drop(s, 6))) IN
                             IF dec # RuneError
                             THEN UnquoteBody(Drop(s, 12), acc \o EncodeRune(dec))
                             ELSE UnquoteBody(Drop(s, 6), acc \o EncodeRune(RuneError))
                        ELSE UnquoteBody(Drop(s, 6), acc \o EncodeRune(rr))
                   ELSE fail
         ELSE IF b = QUOTE \/ b < 32 THEN fail
         ELSE IF b < 128 THEN UnquoteBody(Tail(s), Append(acc, b))
         ELSE LET r == DecodeRune(s) IN
              UnquoteBody(Drop(s, r.size), acc \o EncodeRune(r.cp))

\* json.Unmarshal(data, &s) for data that starts with a quote: [ok, s]
jsonUnmarshalString(data) ==
    IF Len(data) < 2 \/ data[1] # QUOTE \/ data[Len(data)] # QUOTE
    THEN [ok |-> FALSE, s |-> <<>>]
    ELSE UnquoteBody(SubSeq(data, 2, Len(data) - 1), <<>>)

(***************************************************************************)
(* Keys, producer functions and array elements of the callers.             *)
(***************************************************************************)
KeyEmpty == <<>>
KeyQuoted == <<34, 92>>
KeyRaw == <<255>>

Keys == {KeyEmpty, KeyQuoted, KeyRaw}

\* elements handed to WriteElement
ElemInt == [type |-> "int", v |-> 1]
ElemString == [type |-> "string", v |-> <<97>>]
ElemChan == [type |-> "chan", v |-> 0]

\* json.Marshal(e) in WriteElement: [ok, jsn]
jsonMarshalElem(e) ==
    IF e.type = "int" THEN [ok |-> TRUE, jsn |-> <<48 + e.v>>]
    ELSE IF e.type = "string" THEN [ok |-> TRUE, jsn |-> jsonMarshalString(e.v)]
    ELSE [ok |-> FALSE, jsn |-> <<>>]

\* The callbacks given to NewValue / NewArrayValue.  A ValueFunc writes out
\* with one Write; an ArrayValueFunc calls WriteElement for each of elems.
\* ignore: the callback drops the error of a failed write; fail: it returns
\* an error of its own after writing.
Producers ==
    [ PV     |-> [kind |-> "value", out |-> jsonMarshalString(streamPrefix),
                  elems |-> <<>>, ignore |-> FALSE, fail |-> FALSE],
      PVerr  |-> [kind |-> "value", out |-> <<97>>,
                  elems |-> <<>>, ignore |-> FALSE, fail |-> TRUE],
      PA0    |-> [kind |-> "array", out |-> <<>>,
                  elems |-> <<>>, ignore |-> FALSE, fail |-> FALSE],
      PA2    |-> [kind |-> "array", out |-> <<>>,
                  elems |-> <<ElemInt, ElemString>>, ignore |-> FALSE, fail |-> FALSE],
      PAlax  |-> [kind |-> "array", out |-> <<>>,
                  elems |-> <<ElemChan, ElemInt>>, ignore |-> TRUE, fail |-> FALSE],
      PAbad  |-> [kind |-> "array", out |-> <<>>,
                  elems |-> <<ElemInt, ElemChan>>, ignore |-> FALSE, fail |-> FALSE] ]

ValueFuncs == {f \in DOMAIN Producers : Producers[f].kind = "value"}

ArrayValueFuncs == {f \in DOMAIN Producers : Producers[f].kind = "array"}

\* errors
ErrNil == "nil"
ErrDuplicateKey == "duplicate key"
ErrUnexpectedKey == "unexpected key"
ErrSyntax == "json: syntax error"
ErrMarshal == "json: unsupported type"
ErrSink == "sink write failed"
ErrProducer == "producer failed"

(***************************************************************************)
(* The callers of the package.                                             *)
(***************************************************************************)
Procs == {"p1", "p2", "p3"}

None == "none"

VARIABLES
    m,        \* Writer.m: key -> Value
    mu,       \* Writer.Mutex: its holder, or None
    pc,       \* each caller's position in newValue
    arg,      \* each caller's (key, f)
    ret,      \* each caller's result of newValue: ErrNil, ErrDuplicateKey or None
    snap,     \* history: m as a caller inside newValue found it at Lock
    w,        \* the Writer's scanner fields and its io.Writer w.w
    phase,    \* "prepare" until the encoder starts, then "stream"
    pending,  \* bytes the encoder has still to hand to Write
    h,        \* history of the stream: bytes consumed, sink length after each, calls
    err       \* the error the last Write returned

vars == <<m, mu, pc, arg, ret, snap, w, phase, pending, h, err>>

regVars == <<m, mu, pc, arg, ret, snap>>

streamVars == <<w, phase, pending, h, err>>

(***************************************************************************)
(* Registration: New, NewValue, NewArrayValue, newValue.                   *)
(***************************************************************************)
\* m: map[string]*Value{} of New
EmptyMap == [k \in {} |-> None]

\* &Value{key: key, f: f}
NewValueRecord(key, f) == [key |-> key, f |-> f]

\* variant: newValue without the mutex
CanLockAlways(p) == TRUE

\* w.Lock() returns once no other caller holds the mutex
CanLock(p) == mu = None

\* NewValue(key, f): enters newValue
NewValue(p, key, f) ==
    /\ phase = "prepare"
    /\ pc[p] = "idle"
    /\ f \in ValueFuncs
    /\ pc' = [pc EXCEPT ![p] = "lock"]
    /\ arg' = [arg EXCEPT ![p] = NewValueRecord(key, f)]
    /\ UNCHANGED <<m, mu, ret, snap>>
    /\ UNCHANGED streamVars

\* NewArrayValue(key, f): enters newValue
NewArrayValue(p, key, f) ==
    /\ phase = "prepare"
    /\ pc[p] = "idle"
    /\ f \in ArrayValueFuncs
    /\ pc' = [pc EXCEPT ![p] = "lock"]
    /\ arg' = [arg EXCEPT ![p] = NewValueRecord(key, f)]
    /\ UNCHANGED <<m, mu, ret, snap>>
    /\ UNCHANGED streamVars

\* w.Lock()
Lock(p) ==
    /\ pc[p] = "lock"
    /\ CanLock(p)
    /\ mu' = p
    /\ snap' = [snap EXCEPT ![p] = m]
    /\ pc' = [pc EXCEPT ![p] = "check"]
    /\ UNCHANGED <<m, arg, ret>>
    /\ UNCHANGED streamVars

\* variant: newValue without the lookup, the later registration wins
CheckKeyOverwrite(p) ==
    /\ pc[p] = "check"
    /\ pc' = [pc EXCEPT ![p] = "store"]
    /\ UNCHANGED <<m, mu, arg, ret, snap>>
    /\ UNCHANGED streamVars

\* if _, ok := w.m[key]; ok { return nil, ErrDuplicateKey }
CheckKey(p) ==
    /\ pc[p] = "check"
    /\ IF arg[p].key \in DOMAIN m
       THEN /\ ret' = [ret EXCEPT ![p] = ErrDuplicateKey]
            /\ pc' = [pc EXCEPT ![p] = "unlock"]
       ELSE /\ pc' = [pc EXCEPT ![p] = "store"]
            /\ UNCHANGED ret
    /\ UNCHANGED <<m, mu, arg, snap>>
    /\ UNCHANGED streamVars

\* w.m[key] = v; return v, nil
Store(p) ==
    /\ pc[p] = "store"
    /\ m' = [k \in DOMAIN m \cup {arg[p].key} |->
                IF k = arg[p].key THEN arg[p] ELSE m[k]]
    /\ ret' = [ret EXCEPT ![p] = ErrNil]
    /\ pc' = [pc EXCEPT ![p] = "unlock"]
    /\ UNCHANGED <<mu, arg, snap>>
    /\ UNCHANGED streamVars

\* defer w.Unlock()
Unlock(p) ==
    /\ pc[p] = "unlock"
    /\ mu' = IF mu = p THEN None ELSE mu
    /\ snap' = [snap EXCEPT ![p] = EmptyMap]
    /\ pc' = [pc EXCEPT ![p] = "done"]
    /\ UNCHANGED <<m, arg, ret>>
    /\ UNCHANGED streamVars

\* Value.MarshalJSON
MarshalJSON(v) == jsonMarshalString(streamPrefix \o v.key)

(***************************************************************************)
(* The io.Writer behind the Writer.  room < 0: it takes everything; else   *)
(* it takes room more bytes and fails the write that does not fit.         *)
(***************************************************************************)
Min(a, b) == IF a < b THEN a ELSE b

SinkWrite(sink, p) ==
    IF sink.room < 0
    THEN [sink |-> [sink EXCEPT !.data = @ \o p], nn |-> Len(p), ok |-> TRUE]
    ELSE LET k == Min(Len(p), sink.room) IN
         [sink |-> [data |-> sink.data \o Take(p, k), room |-> sink.room - k],
          nn |-> k, ok |-> k = Len(p)]

\* w.w.Write(p) inside a run r = [w, h, n, err] of Write
wWrite(r, p) ==
    LET Written(res) ==
            [r |-> [r EXCEPT !.w.w = res.sink], nn |-> res.nn, ok |-> res.ok]
    IN  Written(SinkWrite(r.w.w, p))

RECURSIVE RescanQuotes(_, _)
RescanQuotes(wr, p) ==
    IF p = <<>> THEN wr
    ELSE LET b == Head(p)
             nx == IF wr.onString
                   THEN (IF wr.escaping THEN [wr EXCEPT !.escaping = FALSE]
                         ELSE IF b = BACKSLASH THEN [wr EXCEPT !.escaping = TRUE]
                         ELSE IF b = QUOTE THEN [wr EXCEPT !.onString = FALSE]
                         ELSE wr)
                   ELSE IF b = QUOTE
                   THEN [wr EXCEPT !.onString = TRUE, !.escaping = FALSE,
                                   !.streamState = stateUndetermined,
                                   !.stringBuf = <<QUOTE>>]
                   ELSE wr
         IN  RescanQuotes(nx, Tail(p))

\* variant: the callback is given the Writer, so its bytes are scanned too
CallbackWriteRescan(r, p) ==
    LET Scanned(o) == [o EXCEPT !.r.w = RescanQuotes(@, Take(p, o.nn))]
    IN  Scanned(wWrite(r, p))

\* the io.Writer a callback is given: w.w itself
CallbackWrite(r, p) == wWrite(r, p)

(***************************************************************************)
(* elementWriter and streamValue.                                          *)
(***************************************************************************)
\* variant: following is never set, no separator is written
WriteElementNoSeparator(r, following, e) ==
    LET Written(wr) ==
            [r |-> wr.r, following |-> FALSE,
             err |-> IF wr.ok THEN ErrNil ELSE ErrSink]
        Marshaled(j) ==
            IF ~j.ok THEN [r |-> r, following |-> FALSE, err |-> ErrMarshal]
            ELSE Written(CallbackWrite(r, j.jsn))
    IN  Marshaled(jsonMarshalElem(e))

\* elementWriter.WriteElement: [r, following, err]
WriteElement(r, following, e) ==
    LET \* line 257: the element's JSON is written
        Written(wr) ==
            [r |-> wr.r, following |-> TRUE,
             err |-> IF wr.ok THEN ErrNil ELSE ErrSink]
        \* lines 253-256: the element is marshaled
        Marshaled(r1, j) ==
            IF ~j.ok THEN [r |-> r1, following |-> TRUE, err |-> ErrMarshal]
            ELSE Written(CallbackWrite(r1, j.jsn))
        \* lines 244-251: the separator, then following is set
        Separated(sep) ==
            IF ~sep.ok THEN [r |-> sep.r, following |-> TRUE, err |-> ErrSink]
            ELSE Marshaled(sep.r, jsonMarshalElem(e))
    IN  Separated(IF following THEN CallbackWrite(r, <<COMMA>>)
                  ELSE [r |-> r, nn |-> 0, ok |-> TRUE])

RECURSIVE CallArrayValueFunc(_, _, _, _, _)
\* f(&elementWriter{w: w.w}) for an ArrayValueFunc: [r, rets, err], rets the
\* results of its WriteElement calls
CallArrayValueFunc(r, following, elems, prod, rets) ==
    IF elems = <<>>
    THEN [r |-> r, rets |-> rets, err |-> IF prod.fail THEN ErrProducer ELSE ErrNil]
    ELSE LET Emitted(x) ==
                 IF x.err # ErrNil /\ ~prod.ignore
                 THEN [r |-> x.r, rets |-> Append(rets, x.err), err |-> x.err]
                 ELSE CallArrayValueFunc(x.r, x.following, Tail(elems), prod,
                                         Append(rets, x.err))
         IN  Emitted(WriteElement(r, following, Head(elems)))

\* f(w.w) for a ValueFunc: [r, rets, err]
CallValueFunc(r, prod) ==
    LET Written(wr) ==
            [r |-> wr.r, rets |-> <<>>,
             err |-> IF ~wr.ok /\ ~prod.ignore THEN ErrSink
                     ELSE IF prod.fail THEN ErrProducer ELSE ErrNil]
    IN  Written(CallbackWrite(r, prod.out))

\* variant: the closing bracket is written whatever the ArrayValueFunc returned
DispatchCloseAlways(r, v) ==
    LET prod == Producers[v.f]
        Returned(c) ==
            [r |-> c.r, called |-> TRUE, rets |-> c.rets, err |-> c.err]
        Closed(c, close) ==
            [r |-> close.r, called |-> TRUE, rets |-> c.rets,
             err |-> IF c.err # ErrNil THEN c.err
                     ELSE IF close.ok THEN ErrNil ELSE ErrSink]
        Produced(c) == Closed(c, wWrite(c.r, <<RBRACKET>>))
        Opened(open) ==
            IF ~open.ok
            THEN [r |-> open.r, called |-> FALSE, rets |-> <<>>, err |-> ErrSink]
            ELSE Produced(CallArrayValueFunc(open.r, FALSE, prod.elems, prod, <<>>))
    IN  IF prod.kind = "value"
        THEN Returned(CallValueFunc(r, prod))
        ELSE Opened(wWrite(r, <<LBRACKET>>))

\* the switch of streamValue on v.f: [r, called, rets, err]
Dispatch(r, v) ==
    LET prod == Producers[v.f]
        \* lines 210-212: a ValueFunc has returned
        Returned(c) ==
            [r |-> c.r, called |-> TRUE, rets |-> c.rets, err |-> c.err]
        \* lines 227-229: the closing bracket
        Closed(c, close) ==
            [r |-> close.r, called |-> TRUE, rets |-> c.rets,
             err |-> IF close.ok THEN ErrNil ELSE ErrSink]
        \* lines 223-225: an ArrayValueFunc has returned
        Produced(c) ==
            IF c.err # ErrNil
            THEN [r |-> c.r, called |-> TRUE, rets |-> c.rets, err |-> c.err]
            ELSE Closed(c, wWrite(c.r, <<RBRACKET>>))
        \* lines 219-221: the opening bracket
        Opened(open) ==
            IF ~open.ok
            THEN [r |-> open.r, called |-> FALSE, rets |-> <<>>, err |-> ErrSink]
            ELSE Produced(CallArrayValueFunc(open.r, FALSE, prod.elems, prod, <<>>))
    IN  IF prod.kind = "value"
        THEN Returned(CallValueFunc(r, prod))
        ELSE Opened(wWrite(r, <<LBRACKET>>))

\* the scanner's fields in a run
ScanFields(x) ==
    [onString |-> x.w.onString, escaping |-> x.w.escaping,
     streamState |-> x.w.streamState, stringBuf |-> x.w.stringBuf]

\* history: the run after a dispatch d on Value v from run r, with the call
\* of a registered function noted in h.calls: the Value, the index of the
\* closing quote, the sink's length before and after, the scanner fields
\* before and after, the results of its WriteElement calls and its error
NoteCall(r, v, d) ==
    [d.r EXCEPT !.err = d.err,
                !.h.calls =
                    IF d.called
                    THEN Append(@, [v |-> v, at |-> Len(r.h.input) + 1,
                                    from |-> Len(r.w.w.data),
                                    to |-> Len(d.r.w.w.data),
                                    pre |-> ScanFields(r),
                                    post |-> ScanFields(d.r),
                                    rets |-> d.rets, err |-> d.err])
                    ELSE @]

\* variant: the empty key is taken for no key
streamValueNoEmptyKey(r, key) ==
    IF key = <<>> \/ key \notin DOMAIN m
    THEN [r EXCEPT !.err = ErrUnexpectedKey]
    ELSE NoteCall(r, m[key], Dispatch(r, m[key]))

\* variant: a key that is not registered is passed over
streamValueSkipUnknown(r, key) ==
    IF key \notin DOMAIN m THEN r
    ELSE NoteCall(r, m[key], Dispatch(r, m[key]))

\* Writer.streamValue(key): the run with err set
streamValue(r, key) ==
    IF key \notin DOMAIN m
    THEN [r EXCEPT !.err = ErrUnexpectedKey]
    ELSE NoteCall(r, m[key], Dispatch(r, m[key]))

(***************************************************************************)
(* Writer.Write.                                                           *)
(***************************************************************************)
\* variant: the backslash is tested before the escape flag
TrackStringBackslashFirst(wr, b) ==
    IF b = BACKSLASH THEN [wr EXCEPT !.escaping = TRUE]
    ELSE IF wr.escaping THEN [wr EXCEPT !.escaping = FALSE]
    ELSE IF b = QUOTE THEN [wr EXCEPT !.onString = FALSE]
    ELSE wr

\* lines 125-131: the escape flag and the end of the string
TrackString(wr, b) ==
    IF wr.escaping THEN [wr EXCEPT !.escaping = FALSE]
    ELSE IF b = BACKSLASH THEN [wr EXCEPT !.escaping = TRUE]
    ELSE IF b = QUOTE THEN [wr EXCEPT !.onString = FALSE]
    ELSE wr

\* nn, err := w.w.Write(w.stringBuf); n += nn, as lines 146-151 and 161-166
FlushStringBuf(r) ==
    LET Flushed(fl) ==
            [fl.r EXCEPT !.n = @ + fl.nn,
                         !.err = IF fl.ok THEN ErrNil ELSE ErrSink]
    IN  Flushed(wWrite(r, r.w.stringBuf))

\* variant: an ordinary string is recognised but its buffer is not flushed
ClassifyNoFlush(r) ==
    IF r.w.streamState = stateUndetermined
       /\ Len(r.w.stringBuf) >= Len(streamJSONPrefix)
    THEN IF HasPrefix(r.w.stringBuf, streamJSONPrefix)
         THEN [r EXCEPT !.w.streamState = stateValue]
         ELSE [r EXCEPT !.w.streamState = stateNotValue]
    ELSE r

\* variant: the buffer must be longer than the escaped prefix
ClassifyOneByteLate(r) ==
    IF r.w.streamState = stateUndetermined
       /\ Len(r.w.stringBuf) > Len(streamJSONPrefix)
    THEN IF HasPrefix(r.w.stringBuf, streamJSONPrefix)
         THEN [r EXCEPT !.w.streamState = stateValue]
         ELSE FlushStringBuf([r EXCEPT !.w.streamState = stateNotValue])
    ELSE r

\* lines 141-156: with the byte buffered, decide what the string is once the
\* buffer is as long as streamJSONPrefix
Classify(r) ==
    IF r.w.streamState = stateUndetermined
       /\ Len(r.w.stringBuf) >= Len(streamJSONPrefix)
    THEN IF HasPrefix(r.w.stringBuf, streamJSONPrefix)
         THEN [r EXCEPT !.w.streamState = stateValue]
         ELSE FlushStringBuf([r EXCEPT !.w.streamState = stateNotValue])
    ELSE r

\* variant: once a string is classified its bytes are written through, a
\* marker's too
PassOrBufferMarkerThrough(r, b) ==
    IF r.w.streamState # stateUndetermined
    THEN LET Written(o) == [o.r EXCEPT !.err = IF o.ok THEN ErrNil ELSE ErrSink]
         IN  Written(wWrite(r, <<b>>))
    ELSE Classify([r EXCEPT !.w.stringBuf = Append(@, b)])

\* variant: every byte of a string is buffered, whatever the string's state
PassOrBufferKeepBuffering(r, b) ==
    Classify([r EXCEPT !.w.stringBuf = Append(@, b)])

\* lines 133-157: a byte of a string is written through or buffered
PassOrBuffer(r, b) ==
    IF r.w.streamState = stateNotValue
    THEN LET Written(o) == [o.r EXCEPT !.err = IF o.ok THEN ErrNil ELSE ErrSink]
         IN  Written(wWrite(r, <<b>>))
    ELSE Classify([r EXCEPT !.w.stringBuf = Append(@, b)])

\* variant: the buffer is flushed at the end of every buffered string, the
\* marker too
FinishStringFlushMarker(r) ==
    IF r.w.streamState = stateNotValue THEN r
    ELSE LET Decoded(r1, u) ==
                 IF ~u.ok THEN [r1 EXCEPT !.err = ErrSyntax]
                 ELSE streamValue(r1, Drop(u.s, Len(streamPrefix)))
             Flushed(r1) ==
                 IF r1.err # ErrNil \/ r.w.streamState = stateUndetermined THEN r1
                 ELSE Decoded(r1, jsonUnmarshalString(r.w.stringBuf))
         IN  Flushed(FlushStringBuf(r))

\* variant: a marker calls its function when it is recognised and again
\* when it ends
FinishStringCallAgain(r) ==
    IF r.w.streamState = stateUndetermined
    THEN FlushStringBuf(r)
    ELSE IF r.w.streamState = stateValue
    THEN LET Again(r1, key) ==
                 IF r1.err # ErrNil THEN r1 ELSE streamValue(r1, key)
             Decoded(u) ==
                 IF ~u.ok THEN [r EXCEPT !.err = ErrSyntax]
                 ELSE Again(streamValue(r, Drop(u.s, Len(streamPrefix))),
                            Drop(u.s, Len(streamPrefix)))
         IN  Decoded(jsonUnmarshalString(r.w.stringBuf))
    ELSE r

\* variant: the buffer is flushed at the end of every string that is not a
\* marker, classified or not
FinishStringFlushClassified(r) ==
    IF r.w.streamState # stateValue
    THEN FlushStringBuf(r)
    ELSE LET Decoded(u) ==
                 IF ~u.ok THEN [r EXCEPT !.err = ErrSyntax]
                 ELSE streamValue(r, Drop(u.s, Len(streamPrefix)))
         IN  Decoded(jsonUnmarshalString(r.w.stringBuf))

\* variant: the error of json.Unmarshal is dropped and the string it left,
\* the empty one, is taken for the key
FinishStringDropDecodeError(r) ==
    IF r.w.streamState = stateUndetermined
    THEN FlushStringBuf(r)
    ELSE IF r.w.streamState = stateValue
    THEN LET Decoded(u) ==
                 IF ~u.ok THEN streamValue(r, <<>>)
                 ELSE streamValue(r, Drop(u.s, Len(streamPrefix)))
         IN  Decoded(jsonUnmarshalString(r.w.stringBuf))
    ELSE r

\* lines 159-180: the string has ended
FinishString(r) ==
    IF r.w.streamState = stateUndetermined
    THEN FlushStringBuf(r)
    ELSE IF r.w.streamState = stateValue
    THEN LET \* lines 171-179: the key is what follows the prefix
             Decoded(u) ==
                 IF ~u.ok THEN [r EXCEPT !.err = ErrSyntax]
                 ELSE streamValue(r, Drop(u.s, Len(streamPrefix)))
         IN  Decoded(jsonUnmarshalString(r.w.stringBuf))
    ELSE r

\* lines 186-193: a quote outside a string starts one
StartString(wr) ==
    [wr EXCEPT !.onString = TRUE, !.escaping = FALSE,
               !.streamState = stateUndetermined, !.stringBuf = <<QUOTE>>]

\* the body of the loop over p, for one byte
WriteByte(r, b) ==
    IF r.w.onString
    THEN LET Taken(r1) ==
                 IF r1.err # ErrNil THEN r1
                 ELSE IF ~r1.w.onString THEN FinishString(r1)
                 ELSE r1
         IN  Taken(PassOrBuffer([r EXCEPT !.w = TrackString(@, b)], b))
    ELSE IF b = QUOTE THEN [r EXCEPT !.w = StartString(@)]
    ELSE LET Written(o) ==
                 IF o.ok THEN [o.r EXCEPT !.n = @ + 1]
                 ELSE [o.r EXCEPT !.err = ErrSink]
         IN  Written(wWrite(r, <<b>>))

\* history: the byte has been taken, the sink is this long after it
Note(r, b) ==
    [r EXCEPT !.h.input = Append(@, b),
              !.h.sinkAt = Append(@, Len(r.w.w.data))]

RECURSIVE WriteLoop(_, _)
\* for _, b := range p, left at the first error
WriteLoop(r, p) ==
    IF p = <<>> \/ r.err # ErrNil THEN r
    ELSE WriteLoop(Note(WriteByte(r, Head(p)), Head(p)), Tail(p))

\* variant: the escape flag is local to one call of Write
WriterWriteLocalEscape(wr, hist, p) ==
    WriteLoop([w |-> [wr EXCEPT !.escaping = FALSE],
               h |-> [hist EXCEPT !.fed = @ \o p,
                                  !.cutEsc = @ \/ (wr.onString /\ wr.escaping)],
               n |-> 0, err |-> ErrNil], p)

\* Write(p) on a Writer wr with history hist: [w, h, n, err]
WriterWrite(wr, hist, p) ==
    WriteLoop([w |-> wr,
               h |-> [hist EXCEPT !.fed = @ \o p,
                                  !.cutEsc = @ \/ (wr.onString /\ wr.escaping)],
               n |-> 0, err |-> ErrNil], p)

(***************************************************************************)
(* The encoder in front of the Writer and the sink behind it.              *)
(***************************************************************************)
MaxTokens == 2
MaxChunk == 3
MaxRoom == 1

\* pieces of encoder output: bytes outside strings, ordinary strings with
\* escapes, strings as long as the prefix, the marker of each key, and
\* strings that collide with the prefix
Tokens ==
    { <<97>>, <<QUOTE>>, <<BACKSLASH>>,
      <<34, 92, 34, 34>>,
      <<34, 92, 92, 34>>,
      <<34, 97, 97, 97, 97, 97, 34>>,
      <<34, 97, 92, 34, 98, 92, 92, 99, 34>>,
      <<34, 92, 92, 240, 159, 142, 97, 34>>,
      streamJSONPrefix \o <<92, 97, 34>> }
    \cup {MarshalJSON(NewValueRecord(k, "PV")) : k \in Keys}

RECURSIVE StreamsOf(_)
StreamsOf(k) ==
    IF k = 0 THEN {<<>>}
    ELSE LET prev == StreamsOf(k - 1) IN
         prev \cup {s \o t : s \in prev, t \in Tokens}

Streams == StreamsOf(MaxTokens) \ {<<>>}

\* New(w): the fields of a fresh Writer around a sink with room
New(room) ==
    [w |-> [data |-> <<>>, room |-> room],
     onString |-> FALSE, escaping |-> FALSE,
     streamState |-> stateUndetermined, stringBuf |-> <<>>]

\* history: the bytes handed to Write, the bytes Write has taken, the sink's
\* length after each, the calls of registered functions, whether a Write
\* began between a backslash and the byte it escapes, the sink's room at New
NoHistory == [fed |-> <<>>, input |-> <<>>, sinkAt |-> <<>>, calls |-> <<>>,
              cutEsc |-> FALSE, room |-> 0]

\* every caller has registered its Value and returned
Quiescent == mu = None /\ \A p \in Procs : pc[p] = "done"

\* json.NewEncoder(w).Encode(v): registration is over, the encoder has its
\* output and starts handing it to Write
Encode(s) ==
    /\ phase = "prepare"
    /\ Quiescent
    /\ phase' = "stream"
    /\ pending' = s
    /\ UNCHANGED <<w, h, err>>
    /\ UNCHANGED regVars

\* one call of Write with the next k bytes; the encoder stops at the first
\* error a Write returns
Write(k) ==
    /\ phase = "stream"
    /\ err = ErrNil
    /\ k >= 1 /\ k <= Len(pending)
    /\ \E r \in {WriterWrite(w, h, Take(pending, k))} :
          /\ w' = r.w
          /\ h' = r.h
          /\ err' = r.err
    /\ pending' = Drop(pending, k)
    /\ UNCHANGED phase
    /\ UNCHANGED regVars

(***************************************************************************)
(* Specifications.                                                         *)
(***************************************************************************)
\* what each caller may register before an encode
Menu ==
    [ p1 |-> {<<KeyEmpty, "PV">>, <<KeyEmpty, "PA0">>},
      p2 |-> {<<KeyQuoted, "PA2">>, <<KeyQuoted, "PVerr">>, <<KeyQuoted, "PAbad">>},
      p3 |-> {<<KeyRaw, "PV">>, <<KeyEmpty, "PAlax">>} ]

InitReg ==
    /\ m = EmptyMap
    /\ mu = None
    /\ pc = [p \in Procs |-> "idle"]
    /\ arg = [p \in Procs |-> NewValueRecord(KeyEmpty, None)]
    /\ ret = [p \in Procs |-> None]
    /\ snap = [p \in Procs |-> EmptyMap]

Init ==
    /\ InitReg
    /\ \E room \in -1..MaxRoom :
          /\ w = New(room)
          /\ h = [NoHistory EXCEPT !.room = room]
    /\ phase = "prepare"
    /\ pending = <<>>
    /\ err = ErrNil

Next ==
    \/ \E p \in Procs : \E c \in Menu[p] : NewValue(p, c[1], c[2])
    \/ \E p \in Procs : \E c \in Menu[p] : NewArrayValue(p, c[1], c[2])
    \/ \E p \in Procs : Lock(p)
    \/ \E p \in Procs : CheckKey(p)
    \/ \E p \in Procs : Store(p)
    \/ \E p \in Procs : Unlock(p)
    \/ \E s \in Streams : Encode(s)
    \/ \E k \in (1..MaxChunk) \cup {Len(pending)} : Write(k)

Spec == Init /\ [][Next]_vars

\* registration alone: every caller may register any of these, through
\* NewValue or NewArrayValue, and no encode follows
RegMenu == {KeyEmpty, KeyQuoted} \X {"PV", "PA2"}

NextReg ==
    \/ \E p \in Procs : \E c \in RegMenu : NewValue(p, c[1], c[2])
    \/ \E p \in Procs : \E c \in RegMenu : NewArrayValue(p, c[1], c[2])
    \/ \E p \in Procs : Lock(p)
    \/ \E p \in Procs : CheckKey(p)
    \/ \E p \in Procs : Store(p)
    \/ \E p \in Procs : Unlock(p)

SpecReg == Init /\ [][NextReg]_vars

(***************************************************************************)
(* What the claims speak of, said without the scanner: the string          *)
(* literals of a byte sequence by the JSON rule, and the join of elements. *)
(***************************************************************************)
RECURSIVE BackslashRun(_, _, _)
\* how many backslashes stand directly before s[i], after position lo
BackslashRun(s, i, lo) ==
    IF i - 1 > lo /\ s[i - 1] = BACKSLASH THEN 1 + BackslashRun(s, i - 1, lo) ELSE 0

\* s[i], inside the literal opened at lo, is escaped
EscapedAt(s, i, lo) == BackslashRun(s, i, lo) % 2 = 1

RECURSIVE LitScan(_, _, _, _)
LitScan(s, i, open, acc) ==
    IF i > Len(s) THEN [closed |-> acc, open |-> open]
    ELSE IF open = 0
    THEN LitScan(s, i + 1, IF s[i] = QUOTE THEN i ELSE 0, acc)
    ELSE IF s[i] = QUOTE /\ ~EscapedAt(s, i, open)
    THEN LitScan(s, i + 1, 0, acc \cup {<<open, i>>})
    ELSE LitScan(s, i + 1, open, acc)

\* closed: the <<first, last>> positions of the literals of s that have
\* ended; open: where the literal still open began, or 0
StringLiterals(s) == LitScan(s, 1, 0, {})

\* the literals of the bytes taken so far that begin with the escaped prefix
PrefixLiterals ==
    {l \in StringLiterals(h.input).closed :
        HasPrefix(SubSeq(h.input, l[1], l[2]), streamJSONPrefix)}

\* the key a literal carries after the prefix, when it decodes
LiteralKey(l) ==
    LET u == jsonUnmarshalString(SubSeq(h.input, l[1], l[2])) IN
    [ok |-> u.ok, key |-> IF u.ok THEN Drop(u.s, Len(streamPrefix)) ELSE <<>>]

\* the sink's length before the byte at position i was taken
SinkBefore(i) == IF i = 1 THEN 0 ELSE h.sinkAt[i - 1]

\* the calls noted at the closing quote at position i
CallsAt(i) == {j \in 1..Len(h.calls) : h.calls[j].at = i}

RECURSIVE JoinElems(_)
\* serialize(e0) , serialize(e1) , ...
JoinElems(elems) ==
    IF elems = <<>> THEN <<>>
    ELSE jsonMarshalElem(Head(elems)).jsn
           \o (IF Tail(elems) = <<>> THEN <<>> ELSE <<COMMA>> \o JoinElems(Tail(elems)))

AllNil(rets) == \A i \in 1..Len(rets) : rets[i] = ErrNil

(***************************************************************************)
(* C1.  Split invariance of Write: however the bytes handed to Write were  *)
(* cut into calls, the Writer, its sink and the calls of registered        *)
(* functions are those of one Write of all the bytes on a fresh Writer.    *)
(***************************************************************************)
C1_SplitInvariance ==
    phase = "stream" =>
        LET one == WriterWrite(New(h.room), [NoHistory EXCEPT !.room = h.room], h.fed)
        IN  /\ one.w = w
            /\ one.h.calls = h.calls
            /\ one.h.input = h.input
            /\ one.err = err

\* a marker was replaced although one Write began inside an escape pair
C1_Witness ==
    /\ phase = "stream" /\ pending = <<>> /\ err = ErrNil
    /\ h.cutEsc
    /\ Len(h.calls) >= 1
    /\ Len(w.w.data) > 0

(***************************************************************************)
(* C2.  A marker literal of a key registered with a ValueFunc: the sink    *)
(* gets, where the literal stood, the bytes the function wrote and nothing *)
(* else; no byte of the literal, nothing before and nothing after.         *)
(***************************************************************************)
C2_ValueReplacesMarker ==
    \A l \in PrefixLiterals :
        LET k == LiteralKey(l) IN
        (k.ok /\ k.key \in DOMAIN m /\ Producers[m[k.key].f].kind = "value") =>
            LET prod == Producers[m[k.key].f] IN
            /\ Cardinality(CallsAt(l[2])) = 1
            /\ \A j \in CallsAt(l[2]) :
                  LET c == h.calls[j] IN
                  /\ c.v = m[k.key]
                  /\ c.from = SinkBefore(l[1])
                  /\ c.to = h.sinkAt[l[2]]
                  /\ SubSeq(w.w.data, c.from + 1, c.to) = Take(prod.out, c.to - c.from)
                  /\ (h.room < 0 => c.to - c.from = Len(prod.out))

\* a marker that follows another byte and ends the stream was replaced by
\* the function's bytes
C2_Witness ==
    /\ err = ErrNil /\ pending = <<>>
    /\ \E l \in PrefixLiterals :
          /\ l[1] = 2 /\ l[2] = Len(h.input)
          /\ LiteralKey(l).ok /\ LiteralKey(l).key \in DOMAIN m
          /\ m[LiteralKey(l).key].f = "PV"
          /\ w.w.data = <<h.input[1]>> \o Producers["PV"].out

(***************************************************************************)
(* C3.  A marker literal of a key registered with an ArrayValueFunc whose  *)
(* WriteElement calls all succeeded: the sink gets [ , the elements'       *)
(* encodings joined by one comma each, and ] ; no element gives [].        *)
(***************************************************************************)
C3_ArrayJoinsElements ==
    \A l \in PrefixLiterals :
        LET k == LiteralKey(l) IN
        (k.ok /\ k.key \in DOMAIN m /\ Producers[m[k.key].f].kind = "array") =>
            \A j \in CallsAt(l[2]) :
                LET c == h.calls[j]
                    prod == Producers[m[k.key].f]
                IN  (c.err = ErrNil /\ AllNil(c.rets) /\ Len(c.rets) = Len(prod.elems)) =>
                       /\ c.from = SinkBefore(l[1])
                       /\ c.to = h.sinkAt[l[2]]
                       /\ SubSeq(w.w.data, c.from + 1, c.to)
                            = <<LBRACKET>> \o JoinElems(prod.elems) \o <<RBRACKET>>

\* both an array of two elements and an empty array were written
C3_Witness ==
    /\ err = ErrNil /\ pending = <<>>
    /\ \E i, j \in 1..Len(h.calls) :
          /\ h.calls[i].v.f = "PA2" /\ h.calls[i].err = ErrNil
          /\ h.calls[j].v.f = "PA0" /\ h.calls[j].err = ErrNil
          /\ h.calls[j].to - h.calls[j].from = 2
          /\ h.calls[i].to - h.calls[i].from = 7

(***************************************************************************)
(* C4.  Passthrough: when no string literal of the stream begins with the  *)
(* escaped prefix, the stream is written and the Writer is outside a       *)
(* string, the sink holds the input, byte for byte, and no registered      *)
(* function was called.                                                    *)
(***************************************************************************)
C4_Passthrough ==
    (/\ phase = "stream" /\ pending = <<>> /\ err = ErrNil
     /\ ~w.onString
     /\ PrefixLiterals = {})
        => /\ w.w.data = h.input
           /\ h.calls = <<>>

\* a stream with a short string and a long string with escapes went through
C4_Witness ==
    /\ phase = "stream" /\ pending = <<>> /\ err = ErrNil /\ ~w.onString
    /\ PrefixLiterals = {}
    /\ \E a, b \in StringLiterals(h.input).closed :
          a[2] - a[1] < Len(streamJSONPrefix) - 1 /\ b[2] - b[1] >= Len(streamJSONPrefix)
    /\ w.w.data = h.input

(***************************************************************************)
(* C5.  String boundaries: the Writer is inside a string exactly when the  *)
(* bytes taken so far leave a literal open by the JSON rule (a quote       *)
(* outside opens, the first later quote with an even run of backslashes    *)
(* before it closes); the escape flag is the parity of that run; and a     *)
(* registered function is called only at the end of a literal that begins  *)
(* with the escaped prefix.                                                *)
(***************************************************************************)
C5_StringBoundaries ==
    LET lits == StringLiterals(h.input) IN
    /\ w.onString = (lits.open # 0)
    /\ w.onString =>
          w.escaping = (BackslashRun(h.input, Len(h.input) + 1, lits.open) % 2 = 1)
    /\ \A j \in 1..Len(h.calls) :
          \E l \in PrefixLiterals : l[2] = h.calls[j].at

\* an ordinary string with an escaped quote and an escaped backslash, and
\* one that ends with an escaped backslash, have ended; nothing was called
C5_Witness ==
    /\ err = ErrNil /\ pending = <<>> /\ ~w.onString /\ h.calls = <<>>
    /\ \E a, b \in StringLiterals(h.input).closed :
          /\ \E i \in (a[1] + 1)..(a[2] - 1) :
                h.input[i] = QUOTE /\ EscapedAt(h.input, i, a[1])
          /\ h.input[b[2] - 1] = BACKSLASH /\ h.input[b[2] - 2] = BACKSLASH
          /\ a # b
    /\ w.w.data = h.input

(***************************************************************************)
(* C6.  Marker round trip: the bytes Value.MarshalJSON gives for a         *)
(* registered key k, handed to Write, are taken as a marker, decode to k   *)
(* and call the function registered under k, and no other.                 *)
(***************************************************************************)
C6_MarkerRoundTrip ==
    \A k \in DOMAIN m :
        \A l \in StringLiterals(h.input).closed :
            (h.room < 0 /\ SubSeq(h.input, l[1], l[2]) = MarshalJSON(m[k])) =>
                /\ l \in PrefixLiterals
                /\ LiteralKey(l) = [ok |-> TRUE, key |-> k]
                /\ Cardinality(CallsAt(l[2])) = 1
                /\ \A j \in CallsAt(l[2]) : h.calls[j].v = m[k]

(***************************************************************************)
(* C7.  A literal that begins with the escaped prefix and whose decoded    *)
(* key is not registered: Write returns the unexpected-key error at its    *)
(* closing quote and calls no registered function for it.                  *)
(***************************************************************************)
C7_UnknownKeyFails ==
    \A l \in PrefixLiterals :
        LET k == LiteralKey(l) IN
        (k.ok /\ k.key \notin DOMAIN m) =>
            /\ err = ErrUnexpectedKey
            /\ l[2] = Len(h.input)
            /\ CallsAt(l[2]) = {}

\* after one marker was replaced, the next one named no registered key
C7_Witness ==
    /\ err = ErrUnexpectedKey
    /\ Len(h.calls) = 1 /\ h.calls[1].err = ErrNil
    /\ \E l \in PrefixLiterals :
          l[2] = Len(h.input) /\ LiteralKey(l).ok /\ LiteralKey(l).key \notin DOMAIN m

(***************************************************************************)
(* C8.  A registration whose key is already present returns                *)
(* ErrDuplicateKey and leaves the registry as it found it: the key keeps   *)
(* the Value of the first registration, every other key its own.           *)
(***************************************************************************)
C8_DuplicateKeyRejected ==
    [][\A p \in Procs :
          (pc[p] = "unlock" /\ pc'[p] = "done" /\ arg[p].key \in DOMAIN snap[p]) =>
             /\ ret[p] = ErrDuplicateKey
             /\ m = snap[p]
             /\ m' = m]_vars

\* a second registration of a key, with another function and through the
\* other constructor, was refused and the first one is still there
C8_Witness ==
    \E p, q \in Procs :
        /\ p # q
        /\ pc[p] = "done" /\ ret[p] = ErrDuplicateKey
        /\ pc[q] = "done" /\ ret[q] = ErrNil
        /\ arg[p].key = arg[q].key
        /\ Producers[arg[p].f].kind # Producers[arg[q].f].kind
        /\ m[arg[p].key] = arg[q]

(***************************************************************************)
(* C9.  The bytes a registered function writes are not scanned: the call   *)
(* leaves onString, escaping, streamState and stringBuf as they were, the  *)
(* Writer is outside a string when the call returns, the bytes are in the  *)
(* sink as written, and one closing quote makes one call.                  *)
(***************************************************************************)
C9_CallbackOutputNotScanned ==
    \A j \in 1..Len(h.calls) :
        LET c == h.calls[j]
            prod == Producers[c.v.f]
        IN  /\ c.post = c.pre
            /\ ~c.post.onString
            /\ Cardinality(CallsAt(c.at)) = 1
            /\ h.sinkAt[c.at] = c.to
            /\ c.at = Len(h.input) =>
                  /\ ~w.onString
                  /\ w.escaping = c.pre.escaping
                  /\ w.streamState = c.pre.streamState
                  /\ w.stringBuf = c.pre.stringBuf
            /\ prod.kind = "value" =>
                  SubSeq(w.w.data, c.from + 1, c.to) = Take(prod.out, c.to - c.from)

\* a function wrote a string that looks like the marker of a registered key;
\* it is in the sink as written, followed by the next byte of the stream
C9_Witness ==
    /\ err = ErrNil /\ pending = <<>>
    /\ Len(h.calls) = 1
    /\ h.calls[1].v.f = "PV"
    /\ KeyEmpty \in DOMAIN m
    /\ Producers["PV"].out = MarshalJSON(m[KeyEmpty])
    /\ h.calls[1].at < Len(h.input)
    /\ w.w.data = Producers["PV"].out \o <<h.input[Len(h.input)]>>

(***************************************************************************)
(* C10.  Concurrent registration: among the calls with one key at most one *)
(* has succeeded; once every caller has returned exactly one has, the      *)
(* others got ErrDuplicateKey, and the registry holds one entry for each   *)
(* key used, the Value of the call that succeeded.                         *)
(***************************************************************************)
C10_AtomicRegistration ==
    LET called == {p \in Procs : pc[p] # "idle"}
        won(k) == {p \in called : arg[p].key = k /\ ret[p] = ErrNil}
        allBack == \A p \in called : pc[p] = "done"
    IN  /\ \A k \in Keys : Cardinality(won(k)) <= 1
        /\ allBack =>
              /\ DOMAIN m = {arg[p].key : p \in called}
              /\ \A p \in called :
                    /\ ret[p] \in {ErrNil, ErrDuplicateKey}
                    /\ Cardinality(won(arg[p].key)) = 1
                    /\ ret[p] = ErrNil => m[arg[p].key] = arg[p]

\* three callers have returned: two used one key, one of them won, the third
\* used a key of its own
C10_Witness ==
    /\ \A p \in Procs : pc[p] = "done"
    /\ \E p, q, r \in Procs :
          /\ p # q /\ arg[p].key = arg[q].key /\ arg[r].key # arg[p].key
          /\ ret[p] = ErrNil /\ ret[q] = ErrDuplicateKey /\ ret[r] = ErrNil
          /\ arg[p].f # arg[q].f

(***************************************************************************)
(* C11.  The empty key is a key like any other.  A registration of "" that *)
(* finds no "" entry succeeds whatever else is registered: it returns nil, *)
(* stores its Value under "" and leaves the other entries alone.  A literal*)
(* that is the escaped prefix directly followed by the closing quote calls *)
(* the function registered under "", once (an ArrayValueFunc is not called *)
(* when the sink refuses the opening bracket).                             *)
(***************************************************************************)
C11_EmptyKey ==
    /\ \A p \in Procs :
          (pc[p] = "unlock" /\ arg[p].key = KeyEmpty /\ KeyEmpty \notin DOMAIN snap[p]) =>
             /\ ret[p] = ErrNil
             /\ DOMAIN m = DOMAIN snap[p] \cup {KeyEmpty}
             /\ m[KeyEmpty] = arg[p]
             /\ \A k \in DOMAIN snap[p] : m[k] = snap[p][k]
    /\ \A l \in StringLiterals(h.input).closed :
          (/\ SubSeq(h.input, l[1], l[2]) = streamJSONPrefix \o <<QUOTE>>
           /\ KeyEmpty \in DOMAIN m) =>
             \/ /\ Cardinality(CallsAt(l[2])) = 1
                /\ \A j \in CallsAt(l[2]) : h.calls[j].v = m[KeyEmpty]
             \/ /\ Producers[m[KeyEmpty].f].kind = "array"
                /\ err = ErrSink /\ l[2] = Len(h.input)
                /\ CallsAt(l[2]) = {}
                /\ h.sinkAt[l[2]] = SinkBefore(l[1])

\* with two non-empty keys registered too, the literal of the bare prefix
\* called the function of the empty key and the stream went on
C11_Witness ==
    /\ err = ErrNil /\ pending = <<>>
    /\ {KeyEmpty, KeyQuoted, KeyRaw} \subseteq DOMAIN m
    /\ \E l \in StringLiterals(h.input).closed :
          /\ SubSeq(h.input, l[1], l[2]) = streamJSONPrefix \o <<QUOTE>>
          /\ l[2] < Len(h.input)
          /\ \E j \in CallsAt(l[2]) :
                h.calls[j].v = m[KeyEmpty] /\ h.calls[j].err = ErrNil

(***************************************************************************)
(* C12.  Ordering of substitution.  The calls of registered functions are  *)
(* those of the marker literals that have closed (literals that begin with *)
(* the escaped prefix and decode to a registered key), one call for each,  *)
(* in stream order, a key as often as its marker stands in the stream (an  *)
(* ArrayValueFunc is not called when the sink refuses the opening bracket).*)
(* When a call begins the sink holds what the bytes before the marker gave *)
(* it: bytes outside strings and ordinary literals, as they stood, below   *)
(* the call's first byte.  No byte after the marker is written below the   *)
(* call's last byte.                                                       *)
(***************************************************************************)
\* the marker literals that have closed
Markers ==
    {l \in PrefixLiterals : LiteralKey(l).ok /\ LiteralKey(l).key \in DOMAIN m}

\* position i of the bytes taken is outside every string literal
OutsideLiterals(i) ==
    LET lits == StringLiterals(h.input) IN
    /\ \A l \in lits.closed : i < l[1] \/ i > l[2]
    /\ lits.open = 0 \/ i < lits.open

C12_SubstitutionOrder ==
    /\ \A j \in 1..Len(h.calls) :
          \E l \in Markers :
             /\ l[2] = h.calls[j].at
             /\ h.calls[j].v = m[LiteralKey(l).key]
             /\ h.calls[j].from = SinkBefore(l[1])
             /\ h.calls[j].to = h.sinkAt[l[2]]
             /\ h.calls[j].from <= h.calls[j].to
             /\ \A i \in 1..(l[1] - 1) :
                   /\ h.sinkAt[i] <= h.calls[j].from
                   /\ OutsideLiterals(i) =>
                         /\ h.sinkAt[i] = SinkBefore(i) + 1
                         /\ w.w.data[h.sinkAt[i]] = h.input[i]
             /\ \A a \in StringLiterals(h.input).closed \ PrefixLiterals :
                   a[2] < l[1] =>
                      SubSeq(w.w.data, SinkBefore(a[1]) + 1, h.sinkAt[a[2]])
                         = SubSeq(h.input, a[1], a[2])
             /\ \A i \in (l[2] + 1)..Len(h.input) : SinkBefore(i) >= h.calls[j].to
    /\ \A i, j \in 1..Len(h.calls) : i < j => h.calls[i].at < h.calls[j].at
    /\ \A l \in Markers :
          \/ Cardinality(CallsAt(l[2])) = 1
          \/ /\ Producers[m[LiteralKey(l).key].f].kind = "array"
             /\ err = ErrSink /\ l[2] = Len(h.input)
             /\ CallsAt(l[2]) = {}

\* the marker of one key stood twice in the stream and its function was
\* called twice, the second call writing after the first
C12_Witness ==
    /\ err = ErrNil /\ pending = <<>>
    /\ Cardinality(Markers) = 2
    /\ Len(h.calls) = 2
    /\ h.calls[1].v = h.calls[2].v
    /\ h.calls[1].at < h.calls[2].at
    /\ h.calls[1].from < h.calls[1].to
    /\ h.calls[1].to = h.calls[2].from
    /\ h.calls[2].from < h.calls[2].to

(***************************************************************************)
(* C13.  Classification rule.  A literal of fewer bytes than the escaped   *)
(* prefix (opening quote included) is stateUndetermined and its bytes are  *)
(* the buffer; from the byte that makes it as long as the escaped prefix   *)
(* on it is stateValue when its first bytes are the escaped prefix and     *)
(* stateNotValue when they are not, whatever stood before the literal and  *)
(* whatever follows in it, and it keeps that state to its closing quote.   *)
(***************************************************************************)
\* the state the rule gives the literal that begins at lo, at the last byte taken
ClassOf(lo) ==
    IF Len(h.input) - lo + 1 < Len(streamJSONPrefix) THEN stateUndetermined
    ELSE IF SubSeq(h.input, lo, lo + Len(streamJSONPrefix) - 1) = streamJSONPrefix
    THEN stateValue
    ELSE stateNotValue

\* the literals that ended with the last byte taken
JustClosed == {l \in StringLiterals(h.input).closed : l[2] = Len(h.input)}

C13_ClassificationRule ==
    LET lits == StringLiterals(h.input) IN
    /\ w.onString =>
          /\ lits.open # 0
          /\ w.streamState = ClassOf(lits.open)
          /\ w.streamState = stateUndetermined =>
                /\ Len(w.stringBuf) < Len(streamJSONPrefix)
                /\ w.stringBuf = SubSeq(h.input, lits.open, Len(h.input))
          /\ w.streamState = stateValue =>
                w.stringBuf = SubSeq(h.input, lits.open, Len(h.input))
    /\ \A l \in JustClosed : w.streamState = ClassOf(l[1])

\* after a literal that differs from the escaped prefix in its last byte only
\* was written as an ordinary string, a marker is open, some bytes past the
\* byte that classified it
C13_Witness ==
    /\ err = ErrNil
    /\ w.onString /\ w.streamState = stateValue
    /\ Len(w.stringBuf) > Len(streamJSONPrefix) + 1
    /\ \E a \in StringLiterals(h.input).closed :
          /\ a[1] = 1
          /\ Take(h.input, Len(streamJSONPrefix) - 1)
               = Take(streamJSONPrefix, Len(streamJSONPrefix) - 1)
          /\ h.input[Len(streamJSONPrefix)] # streamJSONPrefix[Len(streamJSONPrefix)]
          /\ w.w.data = SubSeq(h.input, 1, a[2])

(***************************************************************************)
(* C14.  Marker content is withheld.  For a literal that begins with the   *)
(* escaped prefix, open or closed: the sink does not grow from its opening *)
(* quote to the byte before its closing quote; at the closing quote it     *)
(* grows by what the call of the registered function wrote (a ValueFunc's  *)
(* own bytes, an array's opening bracket first), and by nothing when no    *)
(* function is called: unknown key, decode failure, bracket refused.       *)
(***************************************************************************)
\* the literal still open, when it has been classified a marker
OpenMarker ==
    LET lits == StringLiterals(h.input) IN
    IF lits.open # 0 /\ HasPrefix(SubSeq(h.input, lits.open, Len(h.input)), streamJSONPrefix)
    THEN {<<lits.open, Len(h.input) + 1>>}
    ELSE {}

C14_MarkerWithheld ==
    /\ \A l \in PrefixLiterals \cup OpenMarker :
          \A i \in l[1]..(l[2] - 1) : h.sinkAt[i] = SinkBefore(l[1])
    /\ \A l \in PrefixLiterals :
          IF CallsAt(l[2]) = {}
          THEN /\ h.sinkAt[l[2]] = SinkBefore(l[1])
               /\ err # ErrNil
          ELSE \A j \in CallsAt(l[2]) :
                  LET c == h.calls[j]
                      prod == Producers[c.v.f]
                      out == SubSeq(w.w.data, c.from + 1, c.to)
                  IN  /\ c.from = SinkBefore(l[1])
                      /\ c.to = h.sinkAt[l[2]]
                      /\ prod.kind = "value" => out = Take(prod.out, Len(out))
                      /\ (prod.kind = "array" /\ out # <<>>) => out[1] = LBRACKET

\* a byte was written, then a marker of a key nobody registered ended: the
\* sink holds that byte alone
C14_Witness ==
    /\ err = ErrUnexpectedKey
    /\ h.calls = <<>>
    /\ \E l \in PrefixLiterals : l[1] = 2 /\ l[2] = Len(h.input) /\ LiteralKey(l).ok
    /\ w.w.data = <<h.input[1]>>

(***************************************************************************)
(* C15.  Short strings are flushed exactly once.  A literal that is, with  *)
(* both quotes, no longer than the escaped prefix (its closing quote comes *)
(* while it is stateUndetermined, or is the very byte that classifies it)  *)
(* and whose closing quote was taken without failure: the sink did not     *)
(* grow before the closing quote, grew at it by the literal's length, and  *)
(* holds there the literal byte for byte; the Writer is then outside a     *)
(* string.                                                                 *)
(***************************************************************************)
\* the closed literals no longer than the escaped prefix
ShortLiterals ==
    {l \in StringLiterals(h.input).closed : l[2] - l[1] + 1 <= Len(streamJSONPrefix)}

C15_ShortStringFlushedOnce ==
    \A l \in ShortLiterals :
        (l[2] < Len(h.input) \/ err = ErrNil) =>
           /\ \A i \in l[1]..(l[2] - 1) : h.sinkAt[i] = SinkBefore(l[1])
           /\ h.sinkAt[l[2]] = SinkBefore(l[1]) + (l[2] - l[1] + 1)
           /\ SubSeq(w.w.data, SinkBefore(l[1]) + 1, h.sinkAt[l[2]])
                = SubSeq(h.input, l[1], l[2])
           /\ l[2] = Len(h.input) => ~w.onString
           /\ CallsAt(l[2]) = {}

\* a literal exactly as long as the escaped prefix and a shorter one after it
\* have both ended and stand in the sink once each
C15_Witness ==
    /\ err = ErrNil /\ pending = <<>> /\ ~w.onString
    /\ \E a, b \in ShortLiterals :
          /\ a[2] - a[1] + 1 = Len(streamJSONPrefix)
          /\ b[2] - b[1] + 1 < Len(streamJSONPrefix)
          /\ b[1] = a[2] + 1
          /\ b[2] = Len(h.input)
    /\ w.w.data = h.input
    /\ h.room < 0

(***************************************************************************)
(* C16.  Bounded withholding.  After a byte was taken without failure, the *)
(* sink holds one byte for every byte taken that is neither in a closed    *)
(* marker literal nor withheld, and the bytes the calls wrote.  Withheld   *)
(* are no bytes outside a string and in a stateNotValue string, and the    *)
(* bytes of the open literal, which are the buffer, in a stateUndetermined *)
(* or stateValue string.  An ordinary literal as long as the escaped       *)
(* prefix or longer reaches the sink at its byte of that length, all of it *)
(* so far at once, and then byte by byte as the bytes arrive.              *)
(***************************************************************************)
RECURSIVE SumCalls(_)
\* how many bytes the calls noted in cs put into the sink
SumCalls(cs) ==
    IF cs = <<>> THEN 0 ELSE (Head(cs).to - Head(cs).from) + SumCalls(Tail(cs))

\* the positions of the bytes taken that lie in closed literals beginning
\* with the escaped prefix
InPrefixLiterals ==
    {i \in 1..Len(h.input) : \E l \in PrefixLiterals : l[1] <= i /\ i <= l[2]}

\* the bytes taken and not written: the open literal while it is buffered
Withheld ==
    IF w.onString /\ w.streamState # stateNotValue
    THEN SubSeq(h.input, StringLiterals(h.input).open, Len(h.input))
    ELSE <<>>

\* the ordinary literals, closed or open, that have been classified
LongOrdinary ==
    LET lits == StringLiterals(h.input)
        all == lits.closed \cup (IF lits.open = 0 THEN {}
                                 ELSE {<<lits.open, Len(h.input)>>})
    IN  {l \in all : /\ l[2] - l[1] + 1 >= Len(streamJSONPrefix)
                     /\ ~HasPrefix(SubSeq(h.input, l[1], l[2]), streamJSONPrefix)}

C16_BoundedWithholding ==
    err = ErrNil =>
       /\ Len(w.w.data) = Len(h.input) - Cardinality(InPrefixLiterals)
                             - Len(Withheld) + SumCalls(h.calls)
       /\ (w.onString /\ w.streamState # stateNotValue) => w.stringBuf = Withheld
       /\ \A l \in LongOrdinary :
             LET at == l[1] + Len(streamJSONPrefix) - 1 IN
             /\ \A i \in l[1]..(at - 1) : h.sinkAt[i] = SinkBefore(l[1])
             /\ h.sinkAt[at] = SinkBefore(l[1]) + Len(streamJSONPrefix)
             /\ \A i \in (at + 1)..l[2] : h.sinkAt[i] = h.sinkAt[i - 1] + 1
             /\ SubSeq(w.w.data, SinkBefore(l[1]) + 1, h.sinkAt[l[2]])
                  = SubSeq(h.input, l[1], l[2])

\* after a byte outside strings, an ordinary string is open and some bytes
\* past its classification: nothing is withheld, the sink holds the input
C16_Witness ==
    /\ err = ErrNil
    /\ w.onString /\ w.streamState = stateNotValue
    /\ StringLiterals(h.input).open = 2
    /\ Len(h.input) > Len(streamJSONPrefix) + 1
    /\ w.w.data = h.input

(***************************************************************************)
(* C17.  Failure aborts at once and nothing is rolled back.  A call of a   *)
(* registered function that returned an error is the last thing the Write  *)
(* did: Write returned that error, the sink ends with what the call wrote, *)
(* and after an ArrayValueFunc's error no closing bracket follows the      *)
(* opening one.  After any failure the bytes of p behind the failing byte  *)
(* were not taken.  The sink always holds a beginning of what a sink that  *)
(* never fails would hold for the bytes taken, and when that is more than  *)
(* the sink has room for, Write has returned a failure with the sink full. *)
(***************************************************************************)
\* the bytes taken, written to a sink that never fails
Unhindered == WriterWrite(New(-1), [NoHistory EXCEPT !.room = -1], h.input)

C17_FailureAborts ==
    /\ \A j \in 1..Len(h.calls) :
          LET c == h.calls[j]
              out == SubSeq(w.w.data, c.from + 1, c.to)
          IN  c.err # ErrNil =>
                 /\ err = c.err
                 /\ j = Len(h.calls)
                 /\ c.at = Len(h.input)
                 /\ c.to = Len(w.w.data)
                 /\ Producers[c.v.f].kind = "array" =>
                       /\ out # <<>> /\ out[1] = LBRACKET
                       /\ out[Len(out)] # RBRACKET
    /\ err # ErrNil =>
          /\ Len(h.input) >= 1
          /\ h.input = Take(h.fed, Len(h.input))
          /\ Len(w.w.data) = h.sinkAt[Len(h.input)]
    /\ w.w.data = Take(Unhindered.w.w.data, Len(w.w.data))
    /\ Unhindered.err # ErrNil => err # ErrNil
    /\ (h.room >= 0 /\ Len(Unhindered.w.w.data) > h.room) =>
          /\ err # ErrNil
          /\ Len(w.w.data) = h.room

\* an ArrayValueFunc returned the error of its second WriteElement: the sink
\* ends with the bracket, the first element and the comma, and the byte
\* that followed the marker in the same Write was not taken
C17_Witness ==
    /\ err = ErrMarshal
    /\ Len(h.calls) = 1 /\ h.calls[1].v.f = "PAbad"
    /\ h.calls[1].rets = <<ErrNil, ErrMarshal>>
    /\ w.w.data = <<LBRACKET, 49, COMMA>>
    /\ Len(h.fed) > Len(h.input)
    /\ pending = <<>>

(***************************************************************************)
(* C18.  Decode failure.  A literal that begins with the escaped prefix    *)
(* and is not a valid JSON string (an invalid escape after the prefix):    *)
(* Write returns the decoder's error at its closing quote, no registered   *)
(* function is called, and the sink is as it was before the literal.       *)
(***************************************************************************)
C18_DecodeFailure ==
    \A l \in PrefixLiterals :
        ~LiteralKey(l).ok =>
           /\ err = ErrSyntax
           /\ l[2] = Len(h.input)
           /\ CallsAt(l[2]) = {}
           /\ h.sinkAt[l[2]] = SinkBefore(l[1])
           /\ Len(w.w.data) = SinkBefore(l[1])

\* a byte was written, then a literal of the prefix and a bad escape ended,
\* with functions registered under the empty key and others: the sink holds
\* that byte alone and nothing was called
C18_Witness ==
    /\ err = ErrSyntax
    /\ h.calls = <<>>
    /\ KeyEmpty \in DOMAIN m
    /\ \E l \in PrefixLiterals : l[1] = 2 /\ l[2] = Len(h.input) /\ ~LiteralKey(l).ok
    /\ w.w.data = <<h.input[1]>>

(***************************************************************************)
(* C19.  Write's returned count: a Write(p) that returns no error returns  *)
(* len(p), whatever the Writer's state before the call and whether the     *)
(* bytes of p were passed through, buffered, flushed or replaced.          *)
(***************************************************************************)
C19_WriteCount ==
    [][(phase = "stream" /\ h'.fed # h.fed) =>
          LET p == SubSeq(h'.fed, Len(h.fed) + 1, Len(h'.fed))
              res == WriterWrite(w, h, p)
          IN  (res.w = w' /\ res.err = ErrNil) => res.n = Len(p)]_vars

(***************************************************************************)
(* C20.  Separators of the elementWriter under failing emits.  In what an  *)
(* ArrayValueFunc's call that returned no error put into the sink, from    *)
(* the opening to the closing bracket, whatever its WriteElement calls     *)
(* returned: no comma directly follows the opening bracket, none directly  *)
(* precedes the closing bracket, and no two commas are adjacent.           *)
(***************************************************************************)
C20_EmitterSeparators ==
    \A j \in 1..Len(h.calls) :
        LET c == h.calls[j]
            out == SubSeq(w.w.data, c.from + 1, c.to)
        IN  (Producers[c.v.f].kind = "array" /\ c.err = ErrNil) =>
               /\ Len(out) >= 2
               /\ out[1] = LBRACKET /\ out[Len(out)] = RBRACKET
               /\ out[2] # COMMA
               /\ out[Len(out) - 1] # COMMA
               /\ \A i \in 1..(Len(out) - 1) : ~(out[i] = COMMA /\ out[i + 1] = COMMA)

=============================================================================
